---- MODULE Spec2Model ----
(***************************************************************************)
(* Model of compiler_simulator.py: the lexer, the recursive-descent        *)
(* parser, the semantic tables, the three-address code generator and the   *)
(* facade ArithmeticCompiler.compilar that runs them in sequence.          *)
(*                                                                         *)
(* A character is its Unicode code point.  A Python str read from the      *)
(* source text is a sequence of code points (expresion, Token.valor,       *)
(* BinaryOpNode.operador, LexerError.character as a number).  A str built  *)
(* by an f-string from ASCII text (addresses, instructions, the parser's   *)
(* messages) is a TLA+ string; the lexer's message, which embeds a         *)
(* character of the source, is the tuple of its three parts.               *)
(* Offsets and Parser._indice are 0-based as in the code; the character at *)
(* offset p is expresion[p + 1].  An Optional[int] is <<>> for None and    *)
(* <<p>> for the integer p.                                                *)
(*                                                                         *)
(* The interpreter bounds the depth of the call stack (CPython 3.11: every *)
(* Python call, every instantiation and every call of len, append,         *)
(* isdigit, isspace and int takes a frame; isinstance and str take one     *)
(* until the interpreter specialises the call).  A function of the code    *)
(* gets, as its last parameter m, the number of frames it may still use,   *)
(* its own included, and fails with RecursionError where it needs more.    *)
(***************************************************************************)
EXTENDS Integers, Sequences, FiniteSets, TLC

VARIABLES
    expresion,            \* compilar's argument
    marcos,               \* frames the interpreter allows from compilar's on
    pc,                   \* position in compilar
    tokens,               \* compilar local: tokens
    indice,               \* parser._indice when parse() ended
    ast,                  \* compilar local: ast
    tabla_simbolos,       \* compilar local
    tabla_tipos,          \* compilar local
    direcciones,          \* compilar local
    codigo_tres_dir,      \* compilar local
    referencia_resultado, \* compilar local
    excepcion,            \* the exception compilar propagated
    retorno               \* the dict compilar returned

vars == <<expresion, marcos, pc, tokens, indice, ast, tabla_simbolos, tabla_tipos,
          direcciones, codigo_tres_dir, referencia_resultado, excepcion, retorno>>

-----------------------------------------------------------------------------
(* Bounds of the explored inputs. *)

MaxLen == 4
MaxLenArit == 7
MaxLenCadena == 5
MaxLenDigitos == 5
MaxOperadores == 6

(* Characters the explored inputs are drawn from. *)
\* 1  ARABIC-INDIC DIGIT THREE  +  *  (  )  space  @  SUPERSCRIPT TWO
AlfabetoGeneral == {49, 1635, 43, 42, 40, 41, 32, 64, 178}
\* 1 2 3 + - * /
AlfabetoCadena == {49, 50, 51, 43, 45, 42, 47}
\* 0  1  ARABIC-INDIC DIGIT THREE  SUPERSCRIPT TWO  space  carriage return
AlfabetoDigitos == {48, 49, 1635, 178, 32, 13}
\* 0 1
DigitosArit == {48, 49}

\* The recursion limit of the interpreter, 1000, less the two frames below
\* compilar's when the program runs from the console (the module's and
\* ejecutar_desde_consola's).
MarcosConsola == 998

(* The frames compilar is given in the explored runs: the console's and    *)
(* small numbers that the explored inputs exhaust.  With fewer than 5      *)
(* compilar raises RecursionError on every input.                          *)
PresupuestosGeneral == {5, 8, MarcosConsola}
PresupuestosArit == {8, MarcosConsola}
PresupuestosCadena == {8, 9, MarcosConsola}
PresupuestosDigitos == {5, MarcosConsola}

\* every string of at most n characters of alfabeto
Cadenas(alfabeto, n) == UNION {[1..k -> alfabeto] : k \in 0..n}

\* The strings of exactly n characters that the grammar of the language
\* derives, written without whitespace over the digits of DigitosArit:
\*   expression := term (('+'|'-') term)*
\*   term       := factor (('*'|'/') factor)*
\*   factor     := NUMBER | '(' expression ')'
RECURSIVE Numeros(_)
Numeros(n) ==
    IF n = 0 THEN {<<>>}
    ELSE {Append(s, d) : s \in Numeros(n - 1), d \in DigitosArit}

\* g[k] holding the factors, terms and expressions of k characters for
\* every k < n, those of n characters
Derivadas(g, n) ==
    LET f == Numeros(n) \cup
             (IF n < 3 THEN {} ELSE {<<40>> \o x \o <<41>> : x \in g[n - 2].expresiones})
        t == f \cup
             UNION {{y \o <<op>> \o z : y \in g[k].terminos, op \in {42, 47},
                                       z \in g[n - 1 - k].factores} : k \in 1..(n - 2)}
        x == t \cup
             UNION {{y \o <<op>> \o z : y \in g[k].expresiones, op \in {43, 45},
                                       z \in g[n - 1 - k].terminos} : k \in 1..(n - 2)}
    IN [factores |-> f, terminos |-> t, expresiones |-> x]

\* the sequence of Derivadas for 1..n
RECURSIVE Gramatica(_)
Gramatica(n) ==
    IF n = 0 THEN <<>>
    ELSE LET g == Gramatica(n - 1) IN Append(g, Derivadas(g, n))

\* every valid expression of at most n characters
ExpresionesValidas(n) ==
    LET g == Gramatica(n) IN UNION {g[k].expresiones : k \in 1..n}

\* the chains  1 op 1 ... op 1  of n operators, each + or *
RECURSIVE CadenasDeUnos(_)
CadenasDeUnos(n) ==
    IF n = 0 THEN {<<49>>}
    ELSE {s \o <<op, 49>> : s \in CadenasDeUnos(n - 1), op \in {43, 42}}

\* the chains of more operators than a string of MaxLenCadena characters holds
CadenasLargas ==
    UNION {CadenasDeUnos(n) : n \in ((MaxLenCadena + 1) \div 2)..MaxOperadores}

-----------------------------------------------------------------------------
(* Python built-ins on characters and strings. *)

\* The code points str.isdigit holds of, as ranges <<first, last>>
\* (Unicode 14, Numeric_Type Digit or Decimal).
RangosIsDigit ==
  { <<48, 57>>, <<178, 179>>, <<185, 185>>, <<1632, 1641>>, <<1776, 1785>>,
    <<1984, 1993>>, <<2406, 2415>>, <<2534, 2543>>, <<2662, 2671>>,
    <<2790, 2799>>, <<2918, 2927>>, <<3046, 3055>>, <<3174, 3183>>,
    <<3302, 3311>>, <<3430, 3439>>, <<3558, 3567>>, <<3664, 3673>>,
    <<3792, 3801>>, <<3872, 3881>>, <<4160, 4169>>, <<4240, 4249>>,
    <<4969, 4977>>, <<6112, 6121>>, <<6160, 6169>>, <<6470, 6479>>,
    <<6608, 6618>>, <<6784, 6793>>, <<6800, 6809>>, <<6992, 7001>>,
    <<7088, 7097>>, <<7232, 7241>>, <<7248, 7257>>, <<8304, 8304>>,
    <<8308, 8313>>, <<8320, 8329>>, <<9312, 9320>>, <<9332, 9340>>,
    <<9352, 9360>>, <<9450, 9450>>, <<9461, 9469>>, <<9471, 9471>>,
    <<10102, 10110>>, <<10112, 10120>>, <<10122, 10130>>, <<42528, 42537>>,
    <<43216, 43225>>, <<43264, 43273>>, <<43472, 43481>>, <<43504, 43513>>,
    <<43600, 43609>>, <<44016, 44025>>, <<65296, 65305>>, <<66720, 66729>>,
    <<68160, 68163>>, <<68912, 68921>>, <<69216, 69224>>, <<69714, 69722>>,
    <<69734, 69743>>, <<69872, 69881>>, <<69942, 69951>>, <<70096, 70105>>,
    <<70384, 70393>>, <<70736, 70745>>, <<70864, 70873>>, <<71248, 71257>>,
    <<71360, 71369>>, <<71472, 71481>>, <<71904, 71913>>, <<72016, 72025>>,
    <<72784, 72793>>, <<73040, 73049>>, <<73120, 73129>>, <<92768, 92777>>,
    <<92864, 92873>>, <<93008, 93017>>, <<120782, 120831>>,
    <<123200, 123209>>, <<123632, 123641>>, <<125264, 125273>>,
    <<127232, 127242>>, <<130032, 130041>> }

\* The code points int() takes as digits (General_Category Nd), as ranges
\* <<first, last>>; each range starts at a digit zero and holds whole runs
\* zero..nine.
RangosDecimal ==
  { <<48, 57>>, <<1632, 1641>>, <<1776, 1785>>, <<1984, 1993>>,
    <<2406, 2415>>, <<2534, 2543>>, <<2662, 2671>>, <<2790, 2799>>,
    <<2918, 2927>>, <<3046, 3055>>, <<3174, 3183>>, <<3302, 3311>>,
    <<3430, 3439>>, <<3558, 3567>>, <<3664, 3673>>, <<3792, 3801>>,
    <<3872, 3881>>, <<4160, 4169>>, <<4240, 4249>>, <<6112, 6121>>,
    <<6160, 6169>>, <<6470, 6479>>, <<6608, 6617>>, <<6784, 6793>>,
    <<6800, 6809>>, <<6992, 7001>>, <<7088, 7097>>, <<7232, 7241>>,
    <<7248, 7257>>, <<42528, 42537>>, <<43216, 43225>>, <<43264, 43273>>,
    <<43472, 43481>>, <<43504, 43513>>, <<43600, 43609>>, <<44016, 44025>>,
    <<65296, 65305>>, <<66720, 66729>>, <<68912, 68921>>, <<69734, 69743>>,
    <<69872, 69881>>, <<69942, 69951>>, <<70096, 70105>>, <<70384, 70393>>,
    <<70736, 70745>>, <<70864, 70873>>, <<71248, 71257>>, <<71360, 71369>>,
    <<71472, 71481>>, <<71904, 71913>>, <<72016, 72025>>, <<72784, 72793>>,
    <<73040, 73049>>, <<73120, 73129>>, <<92768, 92777>>, <<92864, 92873>>,
    <<93008, 93017>>, <<120782, 120831>>, <<123200, 123209>>,
    <<123632, 123641>>, <<125264, 125273>>, <<130032, 130041>> }

\* The code points str.isspace holds of, as ranges <<first, last>>.
RangosIsSpace ==
  { <<9, 13>>, <<28, 32>>, <<133, 133>>, <<160, 160>>, <<5760, 5760>>,
    <<8192, 8202>>, <<8232, 8233>>, <<8239, 8239>>, <<8287, 8287>>,
    <<12288, 12288>> }

EnRangos(c, rangos) == \E r \in rangos : r[1] <= c /\ c <= r[2]

DecimalChars == UNION {r[1]..r[2] : r \in RangosDecimal}

\* str.isdigit
IsDigit(c) == EnRangos(c, RangosIsDigit)

\* str.isspace
IsSpace(c) == EnRangos(c, RangosIsSpace)

\* the value int() gives the digit c
DigitValue(c) ==
    LET r == CHOOSE r \in RangosDecimal : r[1] <= c /\ c <= r[2]
    IN (c - r[1]) % 10

\* sys.get_int_max_str_digits(): the longest digit string int() converts
MaxStrDigits == 4300

\* int(s), below IntDe(s), raises ValueError unless every character is a
\* decimal digit and there are at most MaxStrDigits of them (s is a
\* non-empty run of isdigit characters here).
IntRaises(s) ==
    \/ Len(s) > MaxStrDigits
    \/ \E k \in 1..Len(s) : s[k] \notin DecimalChars

RECURSIVE IntDe(_)
IntDe(s) ==
    IF s = <<>> THEN 0
    ELSE 10 * IntDe(SubSeq(s, 1, Len(s) - 1)) + DigitValue(s[Len(s)])

\* The character of code point c as a string, for the characters of
\* Lexer._TIPOS, the only ones the text of an operator token holds.
Chr(c) ==
    CASE c = 43 -> "+" [] c = 45 -> "-" [] c = 42 -> "*"
      [] c = 47 -> "/" [] c = 40 -> "(" [] c = 41 -> ")"

\* the characters of s as one string, as an f-string renders a str
RECURSIVE Str(_)
Str(s) == IF s = <<>> THEN "" ELSE Chr(Head(s)) \o Str(Tail(s))

-----------------------------------------------------------------------------
(* Exceptions. *)

NoneExc == [clase |-> "None"]

\* faulty variant of LexerError: the position is reported 1-based
LexerErrorBaseUno(position, character) ==
    [clase |-> "LexerError",
     message |-> << "Caracter no reconocido '", character,
                   "' en la posición " \o ToString(position + 1) \o "." >>,
     position |-> position + 1,
     character |-> character]

LexerError(position, character) ==
    [clase |-> "LexerError",
     message |-> << "Caracter no reconocido '", character,
                   "' en la posición " \o ToString(position) \o "." >>,
     position |-> position,
     character |-> character]

ParserError(message, position) ==
    [clase |-> "ParserError",
     message |-> IF position # <<>>
                 THEN message \o " en la posición " \o ToString(position[1]) \o "."
                 ELSE message,
     position |-> position]

\* raised by int()
ValueError == [clase |-> "ValueError"]

\* raised by the interpreter where a call needs a frame past the limit
RecursionError == [clase |-> "RecursionError"]

-----------------------------------------------------------------------------
(* Lexer. *)

Token(tipo, valor, posicion) == [tipo |-> tipo, valor |-> valor, posicion |-> posicion]

\* + - * / ( )
TIPOS(c) ==
    CASE c = 43 -> "PLUS" [] c = 45 -> "MINUS" [] c = 42 -> "MUL"
      [] c = 47 -> "DIV" [] c = 40 -> "LPAREN" [] c = 41 -> "RPAREN"

EnTIPOS(c) == c \in {43, 45, 42, 47, 40, 41}

\* faulty variant of FinDeDigitos: the run is not extended past its first digit
FinDeDigitosSinUnir(e, posicion) == posicion + 1

\* the inner while of tokenize: the offset where the digit run ends
RECURSIVE FinDeDigitos(_, _)
FinDeDigitos(e, posicion) ==
    IF posicion < Len(e) /\ IsDigit(e[posicion + 1])
    THEN FinDeDigitos(e, posicion + 1)
    ELSE posicion

\* the NUMBER token of the digit run that starts at inicio
TokenNumero(e, inicio, posicion) ==
    Token("NUMBER", SubSeq(e, inicio + 1, posicion), inicio)

\* The outer while of tokenize, from offset posicion with toks collected.
\* Frames: tokenize's own and one for len, isdigit, isspace or append (2);
\* Token(...) and its __init__ (3); LexerError(...), its __init__ and
\* super().__init__ (4).
RECURSIVE TokenizeDesde(_, _, _, _)
TokenizeDesde(e, posicion, toks, m) ==
    IF m < 2 THEN [excepcion |-> RecursionError, tokens |-> toks]
    ELSE IF ~(posicion < Len(e)) THEN [excepcion |-> NoneExc, tokens |-> toks]
    ELSE LET caracter == e[posicion + 1] IN
         IF IsDigit(caracter)
         THEN LET fin == FinDeDigitos(e, posicion) IN
              IF m < 3 THEN [excepcion |-> RecursionError, tokens |-> toks]
              ELSE TokenizeDesde(e, fin, Append(toks, TokenNumero(e, posicion, fin)), m)
         ELSE IF EnTIPOS(caracter)
         THEN IF m < 3 THEN [excepcion |-> RecursionError, tokens |-> toks]
              ELSE TokenizeDesde(e, posicion + 1,
                                 Append(toks, Token(TIPOS(caracter), <<caracter>>, posicion)),
                                 m)
         ELSE IF IsSpace(caracter)
         THEN TokenizeDesde(e, posicion + 1, toks, m)
         ELSE IF m < 4 THEN [excepcion |-> RecursionError, tokens |-> toks]
         ELSE [excepcion |-> LexerError(posicion, caracter), tokens |-> toks]

tokenize(e, m) == TokenizeDesde(e, 0, <<>>, m)

-----------------------------------------------------------------------------
(* AST nodes. *)

NumberNode(valor) == [clase |-> "NumberNode", valor |-> valor]

BinaryOpNode(operador, izquierdo, derecho) ==
    [clase |-> "BinaryOpNode", operador |-> operador,
     izquierdo |-> izquierdo, derecho |-> derecho]

NoNode == [clase |-> "None"]

-----------------------------------------------------------------------------
(* Parser.  A parsing method returns the exception it raised (or NoneExc),  *)
(* the node it returned and the value _indice has when it ends.             *)

Ok(nodo, i) == [excepcion |-> NoneExc, nodo |-> nodo, indice |-> i]
Raise(exc, i) == [excepcion |-> exc, nodo |-> NoNode, indice |-> i]
Raised(r) == r.excepcion.clase # "None"

al_final(toks, i) == i >= Len(toks)

coincide(toks, i, tipos) ==
    IF al_final(toks, i) THEN FALSE ELSE toks[i + 1].tipo \in tipos

\* the position of the "Se esperaba ')'" error
PosicionParentesis(toks, i) ==
    IF ~al_final(toks, i) THEN toks[i + 1].posicion
    ELSE toks[i].posicion + 1

\* faulty variant of PosicionFactor: the token's index is reported, not its offset
PosicionFactorIndice(toks, i) ==
    IF ~al_final(toks, i) THEN <<i>> ELSE <<>>

\* the position of the "Factor no válido" error
PosicionFactor(toks, i) ==
    IF ~al_final(toks, i) THEN <<toks[i + 1].posicion>> ELSE <<>>

RECURSIVE parse_expresion(_, _, _)
RECURSIVE parse_termino(_, _, _)
RECURSIVE parse_factor(_, _, _)
RECURSIVE BucleExpresion(_, _, _, _)
RECURSIVE BucleTermino(_, _, _, _)

\* faulty variant of BucleTermino: an if in place of the while
BucleTerminoUnaVez(toks, nodo, i, m) ==
    IF coincide(toks, i, {"MUL", "DIV"})
    THEN LET operador == toks[i + 1].valor
             d == parse_factor(toks, i + 1, m - 1)
         IN IF Raised(d) THEN d
            ELSE Ok(BinaryOpNode(operador, nodo, d.nodo), d.indice)
    ELSE Ok(nodo, i)

\* faulty variant of BucleExpresion: the right operand is the rest of the
\* expression, which folds from the right
BucleExpresionDerecha(toks, nodo, i, m) ==
    IF coincide(toks, i, {"PLUS", "MINUS"})
    THEN LET operador == toks[i + 1].valor
             d == parse_expresion(toks, i + 1, m)
         IN IF Raised(d) THEN d
            ELSE Ok(BinaryOpNode(operador, nodo, d.nodo), d.indice)
    ELSE Ok(nodo, i)

\* faulty variant of BucleExpresion: the four operators share one level and are
\* taken from left to right
BucleExpresionSinPrecedencia(toks, nodo, i, m) ==
    IF coincide(toks, i, {"PLUS", "MINUS", "MUL", "DIV"})
    THEN LET operador == toks[i + 1].valor
             d == parse_factor(toks, i + 1, m - 2)
         IN IF Raised(d) THEN d
            ELSE BucleExpresion(toks, BinaryOpNode(operador, nodo, d.nodo), d.indice, m)
    ELSE Ok(nodo, i)

\* Frames: _parse_factor's own and those of _coincide, _al_final and len
\* (4), which no later step of the method exceeds: NumberNode(int(...))
\* takes 3, ParserError(...) 4.
parse_factor(toks, i, m) ==
    IF m < 4 THEN Raise(RecursionError, i)
    ELSE IF coincide(toks, i, {"NUMBER"})
    THEN LET token == toks[i + 1] IN
         IF IntRaises(token.valor) THEN Raise(ValueError, i + 1)
         ELSE Ok(NumberNode(IntDe(token.valor)), i + 1)
    ELSE IF coincide(toks, i, {"LPAREN"})
    THEN LET r == parse_expresion(toks, i + 1, m - 1) IN
         IF Raised(r) THEN r
         ELSE IF ~coincide(toks, r.indice, {"RPAREN"})
         THEN Raise(ParserError("Se esperaba ')'",
                                <<PosicionParentesis(toks, r.indice)>>), r.indice)
         ELSE Ok(r.nodo, r.indice + 1)
    ELSE Raise(ParserError("Factor no válido", PosicionFactor(toks, i)), i)

\* the while of _parse_termino, with nodo accumulated and _indice = i
BucleTermino(toks, nodo, i, m) ==
    IF coincide(toks, i, {"MUL", "DIV"})
    THEN LET operador == toks[i + 1].valor
             d == parse_factor(toks, i + 1, m - 1)
         IN IF Raised(d) THEN d
            ELSE BucleTermino(toks, BinaryOpNode(operador, nodo, d.nodo), d.indice, m)
    ELSE Ok(nodo, i)

parse_termino(toks, i, m) ==
    LET r == parse_factor(toks, i, m - 1) IN
    IF Raised(r) THEN r ELSE BucleTermino(toks, r.nodo, r.indice, m)

\* the while of _parse_expresion, with nodo accumulated and _indice = i
BucleExpresion(toks, nodo, i, m) ==
    IF coincide(toks, i, {"PLUS", "MINUS"})
    THEN LET operador == toks[i + 1].valor
             d == parse_termino(toks, i + 1, m - 1)
         IN IF Raised(d) THEN d
            ELSE BucleExpresion(toks, BinaryOpNode(operador, nodo, d.nodo), d.indice, m)
    ELSE Ok(nodo, i)

parse_expresion(toks, i, m) ==
    LET r == parse_termino(toks, i, m - 1) IN
    IF Raised(r) THEN r ELSE BucleExpresion(toks, r.nodo, r.indice, m)

\* Frames on the empty token list: parse's own and those of
\* ParserError(...), its __init__ and super().__init__ (4).
parse(toks, m) ==
    IF toks = <<>>
    THEN IF m < 4 THEN Raise(RecursionError, 0)
         ELSE Raise(ParserError("La expresión está vacía", <<>>), 0)
    ELSE LET r == parse_expresion(toks, 0, m - 1) IN
         IF Raised(r) THEN r
         ELSE IF ~al_final(toks, r.indice)
         THEN Raise(ParserError("Token inesperado", <<toks[r.indice + 1].posicion>>),
                    r.indice)
         ELSE r

-----------------------------------------------------------------------------
(* construir_tablas_semanticas.  frio: the interpreter has not specialised  *)
(* the calls of isinstance and str, which then take frames.                 *)

DirName(n) == "dir_" \o ToString(n)

\* a dict as a function on its keys
DictVacio == [k \in {} |-> ""]

\* simbolos and orden as visitar leaves them when a call needs a frame past
\* the limit
VisitaFallida(st) ==
    [simbolos |-> st.simbolos, orden |-> st.orden, excepcion |-> RecursionError]

\* faulty variant of VisitarNumero: orden.append outside the if
VisitarNumeroSinFiltrar(valor, st, m) ==
    IF m < 2 THEN VisitaFallida(st)
    ELSE [simbolos |-> IF valor \notin DOMAIN st.simbolos
                       THEN st.simbolos
                                @@ (valor :> DirName(Cardinality(DOMAIN st.simbolos) + 1))
                       ELSE st.simbolos,
          orden |-> Append(st.orden, valor),
          excepcion |-> NoneExc]

\* visitar on a NumberNode: simbolos and orden after the visit.  Frames on
\* a new value: visitar's own and one for len, then for append (2).
VisitarNumero(valor, st, m) ==
    IF valor \notin DOMAIN st.simbolos
    THEN IF m < 2 THEN VisitaFallida(st)
         ELSE [simbolos |-> st.simbolos
                                @@ (valor :> DirName(Cardinality(DOMAIN st.simbolos) + 1)),
               orden |-> Append(st.orden, valor),
               excepcion |-> NoneExc]
    ELSE st

\* Frames: visitar's own (1), and one for isinstance when frio (2).
RECURSIVE visitar(_, _, _, _)
visitar(actual, st, m, frio) ==
    IF Raised(st) THEN st
    ELSE IF m < (IF frio THEN 2 ELSE 1) THEN VisitaFallida(st)
    ELSE IF actual.clase = "NumberNode" THEN VisitarNumero(actual.valor, st, m)
    ELSE visitar(actual.derecho, visitar(actual.izquierdo, st, m - 1, frio), m - 1, frio)

FilaSimbolo(valor, simbolos) ==
    [simbolo |-> ToString(valor), direccion |-> simbolos[valor]]

FilaTipo(valor) == [simbolo |-> ToString(valor), tipo |-> "entero"]

\* Frames of a list comprehension: the function's own, the comprehension's
\* and, when frio, two for str (4).
construir_tablas_semanticas(nodo, m, frio) ==
    LET st == visitar(nodo, [simbolos |-> DictVacio, orden |-> <<>>,
                             excepcion |-> NoneExc], m - 1, frio)
    IN IF Raised(st) \/ (frio /\ m < 4)
       THEN [excepcion |-> RecursionError, tabla_simbolos |-> <<>>,
             tabla_tipos |-> <<>>, simbolos |-> st.simbolos]
       ELSE [excepcion |-> NoneExc,
             tabla_simbolos |->
                 [k \in 1..Len(st.orden) |-> FilaSimbolo(st.orden[k], st.simbolos)],
             tabla_tipos |-> [k \in 1..Len(st.orden) |-> FilaTipo(st.orden[k])],
             simbolos |-> st.simbolos]

-----------------------------------------------------------------------------
(* generar_codigo_tres_direcciones. *)

TempName(temporal) == "t" \o ToString(temporal)

Instruccion(destino, izquierda, operador, derecha) ==
    destino \o " = " \o izquierda \o " " \o Str(operador) \o " " \o derecha

\* faulty variant of EmitirOperacion: temporal is not incremented
EmitirOperacionSinAvanzar(operador, izquierda, derecha, st) ==
    LET destino == TempName(st.temporal) IN
    [ref |-> destino,
     temporal |-> st.temporal,
     instrucciones |-> Append(st.instrucciones,
                              Instruccion(destino, izquierda, operador, derecha)),
     excepcion |-> NoneExc]

\* generar on a BinaryOpNode whose children gave izquierda and derecha,
\* st being instrucciones and temporal after the children
EmitirOperacion(operador, izquierda, derecha, st) ==
    LET destino == TempName(st.temporal) IN
    [ref |-> destino,
     temporal |-> st.temporal + 1,
     instrucciones |-> Append(st.instrucciones,
                              Instruccion(destino, izquierda, operador, derecha)),
     excepcion |-> NoneExc]

\* Frames: generar's own (1), and one for isinstance when frio (2); the
\* append of a BinaryOpNode takes no more than its children did.
RECURSIVE generar(_, _, _, _, _)
generar(actual, dirs, st, m, frio) ==
    IF Raised(st) THEN st
    ELSE IF m < (IF frio THEN 2 ELSE 1)
    THEN [ref |-> "", temporal |-> st.temporal, instrucciones |-> st.instrucciones,
          excepcion |-> RecursionError]
    ELSE IF actual.clase = "NumberNode"
    THEN [ref |-> dirs[actual.valor], temporal |-> st.temporal,
          instrucciones |-> st.instrucciones, excepcion |-> NoneExc]
    ELSE LET izq == generar(actual.izquierdo, dirs, st, m - 1, frio)
             der == generar(actual.derecho, dirs, izq, m - 1, frio)
         IN IF Raised(der) THEN der
            ELSE EmitirOperacion(actual.operador, izq.ref, der.ref, der)

generar_codigo_tres_direcciones(nodo, dirs, m, frio) ==
    generar(nodo, dirs,
            [ref |-> "", temporal |-> 1, instrucciones |-> <<>>, excepcion |-> NoneExc],
            m - 1, frio)

-----------------------------------------------------------------------------
(* ArithmeticCompiler.compilar, one action per statement.  A function      *)
(* compilar calls may use the frames above compilar's own.                 *)

NoRetorno == [clase |-> "None"]

InitCon(entradas, presupuestos) ==
    /\ expresion \in entradas
    /\ marcos \in presupuestos
    /\ pc = "tokenize"
    /\ tokens = <<>>
    /\ indice = 0
    /\ ast = NoNode
    /\ tabla_simbolos = <<>>
    /\ tabla_tipos = <<>>
    /\ direcciones = DictVacio
    /\ codigo_tres_dir = <<>>
    /\ referencia_resultado = ""
    /\ excepcion = NoneExc
    /\ retorno = NoRetorno

\* tokens = self._lexer.tokenize(expresion)
Tokenizar ==
    /\ pc = "tokenize"
    /\ LET r == tokenize(expresion, marcos - 1) IN
       IF Raised(r)
       THEN /\ pc' = "raise"
            /\ excepcion' = r.excepcion
            /\ UNCHANGED tokens
       ELSE /\ pc' = "parse"
            /\ tokens' = r.tokens
            /\ UNCHANGED excepcion
    /\ UNCHANGED <<expresion, marcos, indice, ast, tabla_simbolos, tabla_tipos,
                   direcciones, codigo_tres_dir, referencia_resultado, retorno>>

\* parser = Parser(tokens); ast = parser.parse()
Parsear ==
    /\ pc = "parse"
    /\ LET r == parse(tokens, marcos - 1) IN
       /\ indice' = r.indice
       /\ IF Raised(r)
          THEN /\ pc' = "raise"
               /\ excepcion' = r.excepcion
               /\ UNCHANGED ast
          ELSE /\ pc' = "tablas"
               /\ ast' = r.nodo
               /\ UNCHANGED excepcion
    /\ UNCHANGED <<expresion, marcos, tokens, tabla_simbolos, tabla_tipos, direcciones,
                   codigo_tres_dir, referencia_resultado, retorno>>

\* tabla_simbolos, tabla_tipos, direcciones = construir_tablas_semanticas(ast)
ConstruirTablas ==
    /\ pc = "tablas"
    /\ \E frio \in BOOLEAN :
          LET r == construir_tablas_semanticas(ast, marcos - 1, frio) IN
          IF Raised(r)
          THEN /\ pc' = "raise"
               /\ excepcion' = r.excepcion
               /\ UNCHANGED <<tabla_simbolos, tabla_tipos, direcciones>>
          ELSE /\ pc' = "codigo"
               /\ tabla_simbolos' = r.tabla_simbolos
               /\ tabla_tipos' = r.tabla_tipos
               /\ direcciones' = r.simbolos
               /\ UNCHANGED excepcion
    /\ UNCHANGED <<expresion, marcos, tokens, indice, ast, codigo_tres_dir,
                   referencia_resultado, retorno>>

\* codigo_tres_dir, referencia_resultado = generar_codigo_tres_direcciones(...)
GenerarCodigo ==
    /\ pc = "codigo"
    /\ \E frio \in BOOLEAN :
          LET r == generar_codigo_tres_direcciones(ast, direcciones, marcos - 1, frio) IN
          IF Raised(r)
          THEN /\ pc' = "raise"
               /\ excepcion' = r.excepcion
               /\ UNCHANGED <<codigo_tres_dir, referencia_resultado>>
          ELSE /\ pc' = "return"
               /\ codigo_tres_dir' = r.instrucciones
               /\ referencia_resultado' = r.ref
               /\ UNCHANGED excepcion
    /\ UNCHANGED <<expresion, marcos, tokens, indice, ast, tabla_simbolos, tabla_tipos,
                   direcciones, retorno>>

\* return {...}
Retornar ==
    /\ pc = "return"
    /\ retorno' = [clase |-> "dict",
                   tokens |-> tokens,
                   ast |-> ast,
                   tabla_simbolos |-> tabla_simbolos,
                   tabla_tipos |-> tabla_tipos,
                   codigo_tres_direcciones |-> codigo_tres_dir,
                   resultado |-> referencia_resultado]
    /\ pc' = "returned"
    /\ UNCHANGED <<expresion, marcos, tokens, indice, ast, tabla_simbolos, tabla_tipos,
                   direcciones, codigo_tres_dir, referencia_resultado, excepcion>>

Next ==
    \/ Tokenizar
    \/ Parsear
    \/ ConstruirTablas
    \/ GenerarCodigo
    \/ Retornar

Init == InitCon(Cadenas(AlfabetoGeneral, MaxLen), PresupuestosGeneral)
InitArit == InitCon(ExpresionesValidas(MaxLenArit), PresupuestosArit)
InitCadena ==
    InitCon(Cadenas(AlfabetoCadena, MaxLenCadena) \cup CadenasLargas, PresupuestosCadena)
InitDigitos == InitCon(Cadenas(AlfabetoDigitos, MaxLenDigitos), PresupuestosDigitos)

Spec == Init /\ [][Next]_vars
SpecArit == InitArit /\ [][Next]_vars
SpecCadena == InitCadena /\ [][Next]_vars
SpecDigitos == InitDigitos /\ [][Next]_vars

-----------------------------------------------------------------------------
(* Reference definitions the properties are stated with.  They read the    *)
(* source text and the token sequence only, never the parser's result.     *)

\* + - * /
CaracteresOperador == {43, 45, 42, 47}
Operadores == {"+", "-", "*", "/"}
TiposOperador == {"PLUS", "MINUS", "MUL", "DIV"}

\* compilar has run the lexer / the parser
Lexeado == pc # "tokenize"
Parseado == pc \notin {"tokenize", "parse"} /\ excepcion.clase # "LexerError"
Terminado == pc \in {"return", "returned"}

\* the characters of a NUMBER token are digits int() converts
EsDecimal(valor) ==
    /\ Len(valor) <= MaxStrDigits
    /\ \A j \in 1..Len(valor) : EnRangos(valor[j], RangosDecimal)

\* The grammar  expression := term (('+'|'-') term)*,  term := factor
\* (('*'|'/') factor)*,  factor := NUMBER | '(' expression ')'  read as a
\* one-counter automaton over the tokens: k tokens read, profundidad
\* parentheses open, a factor or an operator expected next.  It gives the
\* first violation and the number of tokens read before it.
RECURSIVE Recorrer(_, _, _, _)
Recorrer(toks, k, profundidad, esperaFactor) ==
    IF k >= Len(toks)
    THEN IF esperaFactor THEN [clase |-> "factor", en |-> k]
         ELSE IF profundidad > 0 THEN [clase |-> "parentesis", en |-> k]
         ELSE [clase |-> "ok", en |-> k]
    ELSE LET tipo == toks[k + 1].tipo IN
         IF esperaFactor
         THEN IF tipo = "NUMBER"
              THEN IF ~EsDecimal(toks[k + 1].valor)
                   THEN [clase |-> "valor", en |-> k]
                   ELSE Recorrer(toks, k + 1, profundidad, FALSE)
              ELSE IF tipo = "LPAREN" THEN Recorrer(toks, k + 1, profundidad + 1, TRUE)
              ELSE [clase |-> "factor", en |-> k]
         ELSE IF tipo \in TiposOperador THEN Recorrer(toks, k + 1, profundidad, TRUE)
              ELSE IF tipo = "RPAREN" /\ profundidad > 0
              THEN Recorrer(toks, k + 1, profundidad - 1, FALSE)
              ELSE IF profundidad > 0 THEN [clase |-> "parentesis", en |-> k]
              ELSE [clase |-> "inesperado", en |-> k]

Diagnostico ==
    IF tokens = <<>> THEN [clase |-> "vacia", en |-> 0]
    ELSE Recorrer(tokens, 0, 0, TRUE)

\* the expression is syntactically valid
Valida == Parseado /\ Diagnostico.clase = "ok"

\* the parentheses open after the first j tokens
Abiertos(j) ==
    Cardinality({i \in 1..j : tokens[i].tipo = "LPAREN"})
        - Cardinality({i \in 1..j : tokens[i].tipo = "RPAREN"})

\* the deepest nesting of parentheses within the first k tokens
AnidamientoHasta(k) ==
    CHOOSE n \in 0..k :
        /\ \E j \in 0..k : Abiertos(j) = n
        /\ \A j \in 0..k : Abiertos(j) <= n

\* The frames the parser takes to read the first k tokens and decide on the
\* next: compilar, parse, and three methods and a parenthesis level below
\* them _coincide, _al_final and len.
MarcosParse(k) == 8 + 3 * AnidamientoHasta(k)

NumOperadores ==
    Cardinality({k \in 1..Len(expresion) : expresion[k] \in CaracteresOperador})

\* Frames that are enough to compile a valid expression: those of the
\* parser, and for the walks of the AST, which is no deeper than it has
\* operators, four more than its depth.
MarcosSuficientes ==
    IF MarcosParse(Len(tokens)) >= NumOperadores + 4
    THEN MarcosParse(Len(tokens)) ELSE NumOperadores + 4

\* the literals of the expression, left to right, and their integer values
Literales == SelectSeq(tokens, LAMBDA t : t.tipo = "NUMBER")
Valores == [k \in 1..Len(Literales) |-> IntDe(Literales[k].valor)]

\* the distinct values of s in order of first occurrence
RECURSIVE Distintos(_)
Distintos(s) ==
    IF s = <<>> THEN <<>>
    ELSE LET d == Distintos(SubSeq(s, 1, Len(s) - 1)) IN
         IF \E j \in 1..Len(d) : d[j] = s[Len(s)] THEN d ELSE Append(d, s[Len(s)])

\* the address the k-th literal must get: dir_j, its value being the j-th
\* distinct value
RefLiteral(k) ==
    LET d == Distintos(Valores)
        j == CHOOSE j \in 1..Len(d) : d[j] = Valores[k]
    IN "dir_" \o ToString(j)

RECURSIVE NodosBinarios(_)
NodosBinarios(nodo) ==
    IF nodo.clase = "BinaryOpNode"
    THEN 1 + NodosBinarios(nodo.izquierdo) + NodosBinarios(nodo.derecho)
    ELSE 0

NadaProducido ==
    /\ ast = NoNode
    /\ tabla_simbolos = <<>> /\ tabla_tipos = <<>>
    /\ codigo_tres_dir = <<>> /\ referencia_resultado = ""
    /\ retorno = NoRetorno

-----------------------------------------------------------------------------
(* C1: tokenizing digits and whitespace. *)

SoloDigitosYEspacios ==
    \A k \in 1..Len(expresion) : IsDigit(expresion[k]) \/ IsSpace(expresion[k])

\* the offsets where a maximal run of digit characters starts
IniciosDeDigitos ==
    {p \in 0..(Len(expresion) - 1) :
        /\ IsDigit(expresion[p + 1])
        /\ (p = 0 \/ ~IsDigit(expresion[p]))}

\* t is the NUMBER token of a whole maximal run of digit characters
EsCorridaCompleta(t) ==
    /\ t.tipo = "NUMBER"
    /\ t.posicion \in IniciosDeDigitos
    /\ Len(t.valor) >= 1
    /\ t.posicion + Len(t.valor) <= Len(expresion)
    /\ \A j \in 1..Len(t.valor) :
          /\ t.valor[j] = expresion[t.posicion + j]
          /\ IsDigit(t.valor[j])
    /\ \/ t.posicion + Len(t.valor) = Len(expresion)
       \/ ~IsDigit(expresion[t.posicion + Len(t.valor) + 1])

\* C1 as stated: on an input of digit and whitespace characters only,
\* tokenize does not fail and returns exactly one NUMBER token.
C1_UnSoloNumero ==
    (Lexeado /\ SoloDigitosYEspacios) =>
        /\ excepcion.clase # "LexerError"
        /\ Len(tokens) = 1
        /\ tokens[1].tipo = "NUMBER"

\* C1 amended: on an input of digit and whitespace characters only, tokenize
\* does not fail and returns one NUMBER token per maximal run of consecutive
\* digit characters, in source order, each with the run as its text and the
\* run's first offset as its position; whitespace gives no token.
C1_UnNumeroPorCorrida ==
    (Lexeado /\ SoloDigitosYEspacios) =>
        /\ excepcion.clase # "LexerError"
        /\ Len(tokens) = Cardinality(IniciosDeDigitos)
        /\ \A k \in 1..Len(tokens) : EsCorridaCompleta(tokens[k])
        /\ \A k \in 1..(Len(tokens) - 1) : tokens[k].posicion < tokens[k + 1].posicion

\* two runs of several digits separated by whitespace have been tokenized
C1_Witness ==
    /\ pc = "parse"
    /\ SoloDigitosYEspacios
    /\ Len(tokens) = 2
    /\ Len(tokens[1].valor) = 2
    /\ Len(expresion) > 4

-----------------------------------------------------------------------------
(* C2: one instruction per binary operator. *)

\* C2: a syntactically valid expression compiles, and the instruction list
\* has as many entries as the source has operator characters, which is the
\* number of BinaryOpNode nodes of the AST.  It compiles whenever the
\* interpreter has the frames the expression takes, and fails otherwise
\* with RecursionError only.
C2_UnaInstruccionPorOperador ==
    Valida =>
        /\ marcos >= MarcosSuficientes => pc # "raise"
        /\ pc = "raise" => excepcion = RecursionError
        /\ ast # NoNode => NodosBinarios(ast) = NumOperadores
        /\ Terminado => Len(codigo_tres_dir) = NumOperadores

\* a parenthesised expression with two operators of the same level compiled
C2_Witness ==
    /\ pc = "returned"
    /\ Len(retorno.codigo_tres_direcciones) = 2
    /\ \E k \in 1..Len(tokens) : tokens[k].tipo = "LPAREN"
    /\ NodosBinarios(retorno.ast) = 2

-----------------------------------------------------------------------------
(* C3: the symbol and type tables. *)

TablasConstruidas == pc \in {"codigo", "return", "returned"}

\* C3: the symbol table has one row per distinct literal value, the k-th row
\* being the k-th distinct value in order of first occurrence with address
\* dir_k; the type table has the same symbols in the same order.
C3_TablaPorValorDistinto ==
    TablasConstruidas =>
        LET d == Distintos(Valores) IN
        /\ tabla_simbolos = [k \in 1..Len(d) |->
                               [simbolo |-> ToString(d[k]),
                                direccion |-> "dir_" \o ToString(k)]]
        /\ tabla_tipos = [k \in 1..Len(d) |->
                            [simbolo |-> ToString(d[k]), tipo |-> "entero"]]
        /\ DOMAIN direcciones = {d[k] : k \in 1..Len(d)}
        /\ \A k \in 1..Len(d) : direcciones[d[k]] = "dir_" \o ToString(k)

\* a value occurs twice, spelled differently, among two distinct values
C3_Witness ==
    /\ pc = "returned"
    /\ Len(tabla_simbolos) = 2
    /\ Len(Literales) = 3
    /\ \E j, k \in 1..Len(Literales) :
          j < k /\ Valores[j] = Valores[k] /\ Literales[j].valor # Literales[k].valor

-----------------------------------------------------------------------------
(* C4, C5: associativity and precedence. *)

\* the tokens are  x1 op1 x2 ... op(n-1) xn  with n >= 2, every literal one
\* that int() converts and every operator of a type in tipos
EsCadena(tipos) ==
    /\ Len(tokens) >= 3
    /\ Len(tokens) % 2 = 1
    /\ \A k \in 1..Len(tokens) :
          IF k % 2 = 1
          THEN tokens[k].tipo = "NUMBER" /\ EsDecimal(tokens[k].valor)
          ELSE tokens[k].tipo \in tipos

\* the k-th instruction of a left-associative chain
InstruccionDeCadena(k) ==
    "t" \o ToString(k) \o " = "
        \o (IF k = 1 THEN RefLiteral(1) ELSE "t" \o ToString(k - 1))
        \o " " \o Chr(tokens[2 * k].valor[1]) \o " " \o RefLiteral(k + 1)

\* C4: a chain of operators of one precedence level compiles to n-1
\* instructions that fold from the left: t1 = ref(x1) op1 ref(x2), then
\* t_k = t_(k-1) op_k ref(x_(k+1)), the final reference being t_(n-1).  It
\* compiles whenever the interpreter has the frames the chain takes, and
\* fails otherwise with RecursionError only.
C4_AsociativaPorLaIzquierda ==
    (Parseado /\ (EsCadena({"PLUS", "MINUS"}) \/ EsCadena({"MUL", "DIV"}))) =>
        /\ marcos >= MarcosSuficientes => pc # "raise"
        /\ pc = "raise" => excepcion = RecursionError
        /\ Terminado =>
              /\ codigo_tres_dir =
                    [k \in 1..((Len(tokens) - 1) \div 2) |-> InstruccionDeCadena(k)]
              /\ referencia_resultado = "t" \o ToString((Len(tokens) - 1) \div 2)

\* x1 - x2 - x3 with three distinct values compiled
C4_Witness ==
    /\ pc = "returned"
    /\ EsCadena({"MINUS"})
    /\ Len(tokens) = 5
    /\ Len(tabla_simbolos) = 3
    /\ retorno.resultado = "t2"

\* the tokens are  a lo b hi c  with lo additive and hi multiplicative and
\* every literal one that int() converts
EsSumaDeProducto ==
    /\ Len(tokens) = 5
    /\ \A k \in {1, 3, 5} : tokens[k].tipo = "NUMBER" /\ EsDecimal(tokens[k].valor)
    /\ tokens[2].tipo \in {"PLUS", "MINUS"}
    /\ tokens[4].tipo \in {"MUL", "DIV"}

\* C5: a lo b hi c compiles to  t1 = ref(b) hi ref(c)  and
\* t2 = ref(a) lo t1,  with final reference t2.  It compiles whenever the
\* interpreter has the frames it takes, and fails otherwise with
\* RecursionError only.
C5_MultiplicaAntesDeSumar ==
    (Parseado /\ EsSumaDeProducto) =>
        /\ marcos >= MarcosSuficientes => pc # "raise"
        /\ pc = "raise" => excepcion = RecursionError
        /\ Terminado =>
              /\ codigo_tres_dir =
                    << "t1 = " \o RefLiteral(2) \o " " \o Chr(tokens[4].valor[1])
                           \o " " \o RefLiteral(3),
                       "t2 = " \o RefLiteral(1) \o " " \o Chr(tokens[2].valor[1])
                           \o " t1" >>
              /\ referencia_resultado = "t2"

\* a + b * c with three distinct values compiled
C5_Witness ==
    /\ pc = "returned"
    /\ EsSumaDeProducto
    /\ tokens[2].tipo = "PLUS" /\ tokens[4].tipo = "MUL"
    /\ retorno.codigo_tres_direcciones = <<"t1 = dir_2 * dir_3", "t2 = dir_1 + t1">>

-----------------------------------------------------------------------------
(* C6: an unrecognised character. *)

\* a character the lexer recognises: a digit character (str.isdigit), one
\* of + - * / ( ), or whitespace (str.isspace)
Reconocido(c) ==
    \/ EnRangos(c, RangosIsDigit)
    \/ c \in {43, 45, 42, 47, 40, 41}
    \/ EnRangos(c, RangosIsSpace)

HayNoReconocido == \E k \in 1..Len(expresion) : ~Reconocido(expresion[k])

\* the offset of the leftmost unrecognised character
PrimerNoReconocido ==
    CHOOSE p \in 0..(Len(expresion) - 1) :
        /\ ~Reconocido(expresion[p + 1])
        /\ \A q \in 0..(p - 1) : Reconocido(expresion[q + 1])

\* C6: a source with an unrecognised character makes compilar fail with the
\* lexical error that carries the leftmost such character and its 0-based
\* offset, whatever precedes it; the parser never runs and nothing is
\* returned.
C6_ErrorLexicoPrimero ==
    (HayNoReconocido /\ Lexeado) =>
        /\ pc = "raise"
        /\ excepcion.clase = "LexerError"
        /\ excepcion.position = PrimerNoReconocido
        /\ excepcion.character = expresion[PrimerNoReconocido + 1]
        /\ excepcion.message =
              << "Caracter no reconocido '", expresion[PrimerNoReconocido + 1],
                "' en la posición " \o ToString(PrimerNoReconocido) \o "." >>
        /\ tokens = <<>>
        /\ NadaProducido

\* the lexical error was raised past a prefix no expression starts with,
\* with whitespace before the unrecognised character
C6_Witness ==
    /\ pc = "raise"
    /\ excepcion.clase = "LexerError"
    /\ excepcion.position = 3
    /\ expresion[1] = 41
    /\ \E k \in 1..3 : expresion[k] = 32

-----------------------------------------------------------------------------
(* C7: the unclosed parenthesis at the end of the input. *)

\* the offset just past the last character of the last token
FinDelUltimoToken == tokens[Len(tokens)].posicion + Len(tokens[Len(tokens)].valor)

\* C7: when a '(' is left unclosed and the tokens end after a complete
\* inner expression, compilar, given the frames the parser takes, fails
\* with "Se esperaba ')'" at the offset just past the last character of the
\* last token.
C7_PosicionTrasElUltimoToken ==
    (/\ Parseado
     /\ Diagnostico.clase = "parentesis" /\ Diagnostico.en = Len(tokens)
     /\ marcos >= MarcosParse(Len(tokens))) =>
        /\ pc = "raise"
        /\ excepcion.clase = "ParserError"
        /\ excepcion.position = <<FinDelUltimoToken>>
        /\ excepcion.message =
              "Se esperaba ')' en la posición " \o ToString(FinDelUltimoToken) \o "."

-----------------------------------------------------------------------------
(* C8: the invalid factor. *)

\* C8: when a factor is expected and the current token is neither NUMBER
\* nor '(', parsing fails with "Factor no válido" at that token's start
\* offset; when no token remains it fails with the same error and no
\* position; no AST and no bundle are produced.  The error is raised in no
\* other case.  Where the interpreter lacks the frames the parser takes to
\* get to that token, parsing fails with RecursionError.
C8_FactorNoValido ==
    Parseado =>
        LET d == Diagnostico
            esperado ==
                IF d.en < Len(tokens)
                THEN [clase |-> "ParserError",
                      message |-> "Factor no válido en la posición "
                                  \o ToString(tokens[d.en + 1].posicion) \o ".",
                      position |-> <<tokens[d.en + 1].posicion>>]
                ELSE [clase |-> "ParserError",
                      message |-> "Factor no válido",
                      position |-> <<>>]
        IN /\ d.clase = "factor" =>
                 /\ pc = "raise"
                 /\ IF marcos >= MarcosParse(d.en)
                    THEN excepcion = esperado /\ indice = d.en
                    ELSE excepcion = RecursionError
                 /\ NadaProducido
           /\ (pc = "raise" /\ excepcion.clase = "ParserError"
                 /\ \E k \in 0..Len(expresion) :
                       excepcion.message \in
                           {"Factor no válido",
                            "Factor no válido en la posición " \o ToString(k) \o "."})
                 => d.clase = "factor"

\* the invalid factor follows an operator, at an offset that is not its index
C8_Witness ==
    /\ pc = "raise"
    /\ excepcion.clase = "ParserError"
    /\ Diagnostico.clase = "factor"
    /\ Diagnostico.en = 2
    /\ Len(tokens) > 2
    /\ tokens[2].tipo \in TiposOperador
    /\ tokens[3].posicion > 2
    /\ excepcion.position = <<tokens[3].posicion>>

-----------------------------------------------------------------------------
(* C9: the outcomes of compilar. *)

BundleCompleto ==
    /\ retorno.clase = "dict"
    /\ retorno.tokens = tokens /\ tokens # <<>>
    /\ retorno.ast = ast /\ ast # NoNode
    /\ retorno.tabla_simbolos = tabla_simbolos /\ tabla_simbolos # <<>>
    /\ retorno.tabla_tipos = tabla_tipos /\ tabla_tipos # <<>>
    /\ retorno.codigo_tres_direcciones = codigo_tres_dir
    /\ retorno.resultado = referencia_resultado /\ referencia_resultado # ""

\* C9: run from the console, compilar returns a complete bundle, or fails
\* with the lexical error, or fails with the syntax error; it fails with no
\* other error and returns nothing when it fails.
C9_TresResultados ==
    marcos = MarcosConsola =>
        /\ pc = "raise" =>
              /\ excepcion.clase \in {"LexerError", "ParserError"}
              /\ retorno = NoRetorno
        /\ pc = "returned" => (excepcion = NoneExc /\ BundleCompleto)
        /\ pc \notin {"raise", "returned"} => (excepcion = NoneExc /\ retorno = NoRetorno)

-----------------------------------------------------------------------------
(* C10: the shape of the instruction list. *)

\* the addresses of the symbol table
Direcciones == {tabla_simbolos[k].direccion : k \in 1..Len(tabla_simbolos)}

\* C10: the i-th instruction's destination is t_i; each operand is an
\* address of the symbol table or the destination of an earlier instruction;
\* the final reference is the last destination, or the single literal's
\* address when there is no instruction.
C10_FormaDelCodigo ==
    Terminado =>
        /\ \A i \in 1..Len(codigo_tres_dir) :
              \E izq, der \in Direcciones \cup {"t" \o ToString(j) : j \in 1..(i - 1)} :
                 \E op \in Operadores :
                    codigo_tres_dir[i] =
                        "t" \o ToString(i) \o " = " \o izq \o " " \o op \o " " \o der
        /\ IF codigo_tres_dir = <<>>
           THEN /\ Len(Literales) = 1
                /\ referencia_resultado = RefLiteral(1)
                /\ referencia_resultado \in Direcciones
           ELSE referencia_resultado = "t" \o ToString(Len(codigo_tres_dir))

\* three instructions compiled, the last taking two temporaries
C10_Witness ==
    /\ pc = "returned"
    /\ Len(codigo_tres_dir) = 3
    /\ \E op \in Operadores : codigo_tres_dir[3] = "t3 = t1 " \o op \o " t2"

====
